---- MODULE Spec2Model ----
(***************************************************************************)
(* Model of src/app.py: an address book kept in a spreadsheet, filled by   *)
(* geocoding free-text addresses and shown on a map of metropolitan France.*)
(*                                                                         *)
(* Representation                                                          *)
(*   - a Python str is a sequence of one-character strings;                *)
(*   - None is the empty tuple <<>>;                                       *)
(*   - a scalar (a spreadsheet cell, a float) is a record [t, m, e]: the   *)
(*     decimal number m * 10^-e (t = "num"), the float nan (t = "nan"), or *)
(*     text that float() cannot parse (t = "text"). A coordinate in        *)
(*     degrees with six decimals is Deg(m) = m * 10^-6, m in micro-degrees.*)
(***************************************************************************)
EXTENDS Integers, Sequences, FiniteSets, TLC

----------------------------------------------------------------------------
(* Strings                                                                 *)

UpperLetters == <<"A","B","C","D","E","F","G","H","I","J","K","L","M",
                  "N","O","P","Q","R","S","T","U","V","W","X","Y","Z">>

LowerLetters == <<"a","b","c","d","e","f","g","h","i","j","k","l","m",
                  "n","o","p","q","r","s","t","u","v","w","x","y","z">>

\* str.lower() on one character
LowerChar(c) ==
  IF \E i \in 1..Len(UpperLetters) : UpperLetters[i] = c
  THEN LowerLetters[CHOOSE i \in 1..Len(UpperLetters) : UpperLetters[i] = c]
  ELSE c

\* str.lower()
Lower(s) == [i \in 1..Len(s) |-> LowerChar(s[i])]

\* the Python test `sub in s`
Contains(sub, s) ==
  \E i \in 0..(Len(s) - Len(sub)) :
    \A k \in 1..Len(sub) : s[i + k] = sub[k]

IsSpace(c) == c = " "

RECURSIVE LStrip(_)
LStrip(s) ==
  IF s # <<>> /\ IsSpace(Head(s)) THEN LStrip(Tail(s)) ELSE s

RECURSIVE RStrip(_)
RStrip(s) ==
  IF s # <<>> /\ IsSpace(s[Len(s)]) THEN RStrip(SubSeq(s, 1, Len(s) - 1)) ELSE s

\* str.strip()
Strip(s) == RStrip(LStrip(s))

\* str.split(sep) for a one-character separator: the pieces between the
\* separators, empty pieces included
RECURSIVE SplitFrom(_, _, _)
SplitFrom(s, sep, cur) ==
  IF s = <<>> THEN <<cur>>
  ELSE IF Head(s) = sep THEN <<cur>> \o SplitFrom(Tail(s), sep, <<>>)
  ELSE SplitFrom(Tail(s), sep, Append(cur, Head(s)))

Split(s, sep) == SplitFrom(s, sep, <<>>)

STR_PARIS == <<"p","a","r","i","s">>
STR_75 == <<"7","5">>
STR_FRANCE == <<"f","r","a","n","c","e">>
STR_FR == <<"f","r">>

----------------------------------------------------------------------------
(* Constants of the program, in micro-degrees and in hundredths of a score *)

FRANCE_LAT_MIN == 41000000
FRANCE_LAT_MAX == 51500000
FRANCE_LON_MIN == -5500000
FRANCE_LON_MAX == 10000000
FRANCE_CENTER == <<46603354, 1888334>>
FRANCE_ZOOM == 6
GEOCODE_SCORE_MIN == 40
GEOCODE_SCORE_FALLBACK == 30

----------------------------------------------------------------------------
(* Numbers                                                                 *)

Million == 1000000

None == <<>>

Abs(x) == IF x < 0 THEN -x ELSE x

Num(m, e) == [t |-> "num", m |-> m, e |-> e]
Deg(micro) == Num(micro, 6)
NaN == [t |-> "nan", m |-> 0, e |-> 0]
Text == [t |-> "text", m |-> 0, e |-> 0]

\* float(value) of a number: the model keeps one representation per value,
\* micro-degrees (e = 6) whenever the value is a whole number of
\* micro-degrees whose mantissa fits 32 bits
Float(v) ==
  CASE v.t = "num" /\ v.e = 0 /\ Abs(v.m) <= 2147 -> Num(v.m * Million, 6)
    [] v.t = "num" /\ v.e = 12 /\ v.m % Million = 0 -> Num(v.m \div Million, 6)
    [] OTHER -> v

\* the value of a float in micro-degrees, for a float that has such a value
Micro(v) == v.m

\* abs(coord) > 360. A mantissa is below 2^31, so a number with twelve
\* decimals is below 360.
AbsGt360(v) ==
  CASE v.t = "nan" -> FALSE
    [] v.e = 0 -> Abs(v.m) > 360
    [] v.e = 6 -> Abs(v.m) > 360 * Million
    [] OTHER -> FALSE

\* coord / 1000000
DivMillion(v) == IF v.t = "nan" THEN v ELSE Float([v EXCEPT !.e = @ + 6])

\* Python truthiness of a float: nonzero (nan is truthy)
Truthy(v) == v # None /\ (v.t = "nan" \/ v.m # 0)

----------------------------------------------------------------------------
(* parse_addresses_with_notes                                              *)

\* Where the pattern \(([^)]+)\) matches when tried at position i of s:
\* the position of its closing parenthesis, 0 when it does not match there.
\* [^)]+ is greedy and takes every character up to the first ")", which must
\* exist and must leave at least one character inside.
GroupEnd(s, i) ==
  IF i <= Len(s) /\ s[i] = "("
     /\ i + 1 <= Len(s) /\ s[i + 1] # ")"
     /\ \E j \in (i + 2)..Len(s) : s[j] = ")"
  THEN CHOOSE j \in (i + 2)..Len(s) :
         s[j] = ")" /\ \A k \in (i + 1)..(j - 1) : s[k] # ")"
  ELSE 0

\* re.search(r'\(([^)]+)\)', addr): the leftmost position where the pattern
\* matches, 0 when there is no match
NoteMatch(s) ==
  IF \E i \in 1..Len(s) : GroupEnd(s, i) # 0
  THEN CHOOSE i \in 1..Len(s) :
         GroupEnd(s, i) # 0 /\ \A k \in 1..(i - 1) : GroupEnd(s, k) = 0
  ELSE 0

\* the end of the run of whitespace that starts at position p (p - 1 if none)
RECURSIVE SpaceRunEnd(_, _)
SpaceRunEnd(s, p) ==
  IF p <= Len(s) /\ IsSpace(s[p]) THEN SpaceRunEnd(s, p + 1) ELSE p - 1

\* re.sub(r'\s*\([^)]+\)', '', addr) from position p on: every
\* non-overlapping match, scanning left to right, is replaced by nothing
RECURSIVE SubGroupsFrom(_, _)
SubGroupsFrom(s, p) ==
  IF p > Len(s) THEN <<>>
  ELSE LET open == SpaceRunEnd(s, p) + 1
           close == GroupEnd(s, open)
       IN IF close # 0
          THEN SubGroupsFrom(s, close + 1)
          ELSE <<s[p]>> \o SubGroupsFrom(s, p + 1)

SubGroups(s) == SubGroupsFrom(s, 1)

\* ParseFragment keeping the note as matched, without .strip()
ParseFragment_note_unstripped(addr) ==
  IF addr = <<>> THEN <<>>
  ELSE LET note_match == NoteMatch(addr)
           note == IF note_match # 0
                   THEN SubSeq(addr, note_match + 1, GroupEnd(addr, note_match) - 1)
                   ELSE <<>>
           address_clean == IF note_match # 0
                            THEN Strip(SubGroups(addr))
                            ELSE Strip(addr)
       IN IF address_clean # <<>> THEN << <<address_clean, note>> >> ELSE <<>>

\* the body of the loop over the fragments: the pairs one fragment yields
\* (none or one)
ParseFragment(addr) ==
  IF addr = <<>> THEN <<>>
  ELSE LET note_match == NoteMatch(addr)
           note == IF note_match # 0
                   THEN Strip(SubSeq(addr, note_match + 1,
                                     GroupEnd(addr, note_match) - 1))
                   ELSE <<>>
           address_clean == IF note_match # 0
                            THEN Strip(SubGroups(addr))
                            ELSE Strip(addr)
       IN IF address_clean # <<>> THEN << <<address_clean, note>> >> ELSE <<>>

RECURSIVE ParseFragments(_)
ParseFragments(addresses) ==
  IF addresses = <<>> THEN <<>>
  ELSE ParseFragment(Head(addresses)) \o ParseFragments(Tail(addresses))

parse_addresses_with_notes(input_text) ==
  LET pieces == Split(input_text, ",")
      addresses == [i \in 1..Len(pieces) |-> Strip(pieces[i])]
  IN ParseFragments(addresses)

----------------------------------------------------------------------------
(* Coordinates                                                             *)

\* normalize_coordinate with the repair applied above 180 degrees
normalize_coordinate_above_180(value) ==
  IF value = None \/ value.t = "text" THEN None
  ELSE LET coord == Float(value)
       IN IF AbsGt360(coord) \/ (coord.t = "num" /\ coord.e = 6
                                 /\ Abs(coord.m) > 180 * Million)
          THEN DivMillion(coord)
          ELSE coord

\* normalize_coordinate: float(value) fails on text; nan parses and is
\* never above 360
normalize_coordinate(value) ==
  IF value = None \/ value.t = "text" THEN None
  ELSE LET coord == Float(value)
       IN IF AbsGt360(coord) THEN DivMillion(coord) ELSE coord

\* the test `"paris" in address.lower() or "75" in address`
IsParisAddress(address) ==
  Contains(STR_PARIS, Lower(address)) \/ Contains(STR_75, address)

correct_paris_longitude(lat, lon, address) ==
  IF Truthy(lat) /\ Truthy(lon)
     /\ IsParisAddress(address) /\ 0 < Micro(lon) /\ Micro(lon) < Million
  THEN LET corrected_lon == Deg(Micro(lon) + 2 * Million)
       IN IF FRANCE_LON_MIN <= Micro(corrected_lon)
             /\ Micro(corrected_lon) <= FRANCE_LON_MAX
          THEN corrected_lon
          ELSE lon
  ELSE lon

\* validate_france_coordinates with the latitude tested against the lower
\* bound of the longitudes
validate_france_coordinates_lat_lon_min(lat, lon, address) ==
  IF lat = None \/ lon = None
  THEN <<lat, lon, FALSE, <<"Coordonnees nulles">> >>
  ELSE IF ~(FRANCE_LON_MIN <= Micro(lat) /\ Micro(lat) <= FRANCE_LAT_MAX)
  THEN <<lat, lon, FALSE, <<"Latitude hors de France", lat>> >>
  ELSE IF ~(FRANCE_LON_MIN <= Micro(lon) /\ Micro(lon) <= FRANCE_LON_MAX)
  THEN <<lat, lon, FALSE, <<"Longitude hors de France", lon>> >>
  ELSE <<lat, lon, TRUE, <<>> >>

\* validate_france_coordinates returns (lat, lon, is_valid, error_message);
\* a message is the empty tuple for "" and <<text, numbers shown>> otherwise
validate_france_coordinates(lat, lon, address) ==
  IF lat = None \/ lon = None
  THEN <<lat, lon, FALSE, <<"Coordonnees nulles">> >>
  ELSE IF ~(FRANCE_LAT_MIN <= Micro(lat) /\ Micro(lat) <= FRANCE_LAT_MAX)
  THEN <<lat, lon, FALSE, <<"Latitude hors de France", lat>> >>
  ELSE IF ~(FRANCE_LON_MIN <= Micro(lon) /\ Micro(lon) <= FRANCE_LON_MAX)
  THEN IF IsParisAddress(address)
          /\ 0 < Micro(lon) /\ Micro(lon) < Million
          /\ FRANCE_LON_MIN <= Micro(lon) + 2 * Million
          /\ Micro(lon) + 2 * Million <= FRANCE_LON_MAX
       THEN LET corrected_lon == Deg(Micro(lon) + 2 * Million)
            IN <<lat, corrected_lon, TRUE,
                 <<"Correction longitude", lon, corrected_lon>> >>
       ELSE <<lat, lon, FALSE, <<"Longitude hors de France", lon>> >>
  ELSE <<lat, lon, TRUE, <<>> >>

is_in_france(lat, lon) ==
  /\ FRANCE_LAT_MIN <= Micro(lat) /\ Micro(lat) <= FRANCE_LAT_MAX
  /\ FRANCE_LON_MIN <= Micro(lon) /\ Micro(lon) <= FRANCE_LON_MAX

----------------------------------------------------------------------------
(* Geocoding. What a provider answers is the environment's choice: a        *)
(* response is [kind, status_code, features], kind "exception" standing for *)
(* any error raised inside the try block (timeout, bad JSON, missing key).  *)
(* A feature is [lat, lon, score, country]; score is None when the property *)
(* is absent; country is [k, s] with k "absent", "null" or "str".           *)

\* properties.get('score', 0)
ScoreOf(feature) == IF feature.score = None THEN Num(0, 2) ELSE feature.score

\* try_api_adresse accepting only a score of GEOCODE_SCORE_MIN or more
try_api_adresse_score_min(response) ==
  IF response.kind = "exception" THEN None
  ELSE IF response.status_code = 200 /\ response.features # <<>>
  THEN LET feature == response.features[1]
       IN IF ~is_in_france(feature.lat, feature.lon) THEN None
          ELSE IF ScoreOf(feature).m >= GEOCODE_SCORE_MIN
          THEN <<feature.lat, feature.lon>>
          ELSE None
  ELSE None

try_api_adresse(response) ==
  IF response.kind = "exception" THEN None
  ELSE IF response.status_code = 200 /\ response.features # <<>>
  THEN LET feature == response.features[1]
           lat == feature.lat
           lon == feature.lon
           score == ScoreOf(feature)
       IN IF ~is_in_france(lat, lon) THEN None
          ELSE IF score.m >= GEOCODE_SCORE_MIN \/ score.m >= GEOCODE_SCORE_FALLBACK
          THEN <<lat, lon>>
          ELSE None
  ELSE None

\* properties.get('country', '').lower() raises on a null country, and the
\* except clause turns that into no result
try_photon_api(response) ==
  IF response.kind = "exception" THEN None
  ELSE IF response.status_code = 200 /\ response.features # <<>>
  THEN LET feature == response.features[1]
           lat == feature.lat
           lon == feature.lon
       IN IF is_in_france(lat, lon)
          THEN IF feature.country.k = "null" THEN None
               ELSE LET country == IF feature.country.k = "absent" THEN <<>>
                                   ELSE Lower(feature.country.s)
                    IN IF country \in {STR_FRANCE, STR_FR, <<>>}
                       THEN <<lat, lon>>
                       ELSE None
          ELSE None
  ELSE None

\* geocode_address_france asking both providers before it chooses
geocode_address_france_no_short_circuit(address, api_response, photon_response) ==
  IF Strip(address) = <<>>
  THEN [result |-> <<None, None>>, queried |-> <<>>]
  ELSE LET result1 == try_api_adresse(api_response)
           result2 == try_photon_api(photon_response)
       IN [result |-> IF result1 # None THEN result1
                      ELSE IF result2 # None THEN result2
                      ELSE <<None, None>>,
           queried |-> <<"api_adresse", "photon">>]

\* geocode_address_france, with the providers it queried, in order
geocode_address_france(address, api_response, photon_response) ==
  IF Strip(address) = <<>>
  THEN [result |-> <<None, None>>, queried |-> <<>>]
  ELSE LET result1 == try_api_adresse(api_response)
       IN IF result1 # None
          THEN [result |-> result1, queried |-> <<"api_adresse">>]
          ELSE LET result2 == try_photon_api(photon_response)
               IN IF result2 # None
                  THEN [result |-> result2, queried |-> <<"api_adresse", "photon">>]
                  ELSE [result |-> <<None, None>>,
                        queried |-> <<"api_adresse", "photon">>]

----------------------------------------------------------------------------
(* The sheet. `rows` are the data rows, sheet row 2 onwards (sheet row 1 is *)
(* the header connect_to_google_sheet writes); a row is                     *)
(* [Adresse, Latitude, Longitude, Note]. A DataFrame is the sequence of its *)
(* rows, each with its pandas index label.                                  *)

\* sheet.append_row([address, float(lat), float(lon), note])
AppendRow(rows, address, lat, lon, note) ==
  Append(rows, [Adresse |-> address, Latitude |-> Float(lat),
                Longitude |-> Float(lon), Note |-> note])

\* sheet.delete_rows(n): n counts sheet rows from 1, the header included
DeleteRows(rows, n) ==
  IF 2 <= n /\ n <= Len(rows) + 1
  THEN SubSeq(rows, 1, n - 2) \o SubSeq(rows, n, Len(rows))
  ELSE rows

\* pandas isna(): None and nan
IsNA(v) == v = None \/ v.t = "nan"

EmptyDataFrame == <<>>

\* get_all_addresses; read_ok is whether sheet.get_all_records() returned
get_all_addresses(rows, read_ok) ==
  IF ~read_ok THEN EmptyDataFrame
  ELSE LET data == rows
           normalized == [i \in 1..Len(data) |->
                           [index |-> i - 1,
                            Adresse |-> data[i].Adresse,
                            Latitude |-> normalize_coordinate(data[i].Latitude),
                            Longitude |-> normalize_coordinate(data[i].Longitude),
                            Note |-> IF data[i].Note = None THEN <<>>
                                     ELSE data[i].Note]]
           Kept(r) == ~IsNA(r.Latitude) /\ ~IsNA(r.Longitude)
           dropped == SelectSeq(normalized, Kept)
       IN [i \in 1..Len(dropped) |->
            [dropped[i] EXCEPT !.Longitude =
               correct_paris_longitude(dropped[i].Latitude,
                                       dropped[i].Longitude,
                                       dropped[i].Adresse)]]

\* delete_address: [rows after, value returned]; ok is whether
\* sheet.delete_rows returned
delete_address(rows, index, ok) ==
  IF ok THEN [rows |-> DeleteRows(rows, index + 2), ret |-> TRUE]
  ELSE [rows |-> rows, ret |-> FALSE]

\* add_address handing sheet.append_row the longitude for the latitude
add_address_lat_lon_swapped(rows, address, note, api_response, photon_response, append_ok) ==
  IF Strip(address) = <<>>
  THEN [rows |-> rows, ret |-> FALSE, geo |-> None, appended |-> None]
  ELSE LET geo == geocode_address_france(address, api_response, photon_response)
           lat == geo.result[1]
           lon == geo.result[2]
       IN IF lat = None \/ lon = None
          THEN [rows |-> rows, ret |-> FALSE, geo |-> geo.result, appended |-> None]
          ELSE LET v == validate_france_coordinates(lat, lon, address)
               IN IF ~v[3]
                  THEN [rows |-> rows, ret |-> FALSE, geo |-> geo.result,
                        appended |-> None]
                  ELSE IF append_ok
                  THEN [rows |-> AppendRow(rows, address, v[2], v[1], note),
                        ret |-> TRUE, geo |-> geo.result,
                        appended |-> <<Float(v[2]), Float(v[1])>>]
                  ELSE [rows |-> rows, ret |-> FALSE, geo |-> geo.result,
                        appended |-> None]

\* add_address: [rows after, value returned, what the geocoder returned, the
\* coordinates handed to sheet.append_row or None]; append_ok is whether
\* sheet.append_row returned
add_address(rows, address, note, api_response, photon_response, append_ok) ==
  IF Strip(address) = <<>>
  THEN [rows |-> rows, ret |-> FALSE, geo |-> None, appended |-> None]
  ELSE LET geo == geocode_address_france(address, api_response, photon_response)
           lat == geo.result[1]
           lon == geo.result[2]
       IN IF lat = None \/ lon = None
          THEN [rows |-> rows, ret |-> FALSE, geo |-> geo.result, appended |-> None]
          ELSE LET v == validate_france_coordinates(lat, lon, address)
               IN IF ~v[3]
                  THEN [rows |-> rows, ret |-> FALSE, geo |-> geo.result,
                        appended |-> None]
                  ELSE IF append_ok
                  THEN [rows |-> AppendRow(rows, address, v[1], v[2], note),
                        ret |-> TRUE, geo |-> geo.result,
                        appended |-> <<Float(v[1]), Float(v[2])>>]
                  ELSE [rows |-> rows, ret |-> FALSE, geo |-> geo.result,
                        appended |-> None]

EmptyResults == [success |-> <<>>, failed |-> <<>>, corrected |-> <<>>]

\* what one turn of the loop returns to the model: [rows after, results
\* after, what the geocoder returned, the coordinates handed to
\* sheet.append_row or None]
BatchTurn(rows, results, geo, appended) ==
  [rows |-> rows, results |-> results, geo |-> geo, appended |-> appended]

\* BatchItem swallowing an exception of sheet.append_row
BatchItem_append_error_dropped(rows, results, address, note, api_response, photon_response, append_ok) ==
  LET geo == geocode_address_france(address, api_response, photon_response)
      lat == geo.result[1]
      lon == geo.result[2]
  IN IF lat # None /\ lon # None
     THEN LET v == validate_france_coordinates(lat, lon, address)
              message == v[4]
          IN IF v[3]
             THEN IF append_ok
                  THEN BatchTurn(AppendRow(rows, address, v[1], v[2], note),
                                 IF message # <<>>
                                 THEN [results EXCEPT !.corrected =
                                         Append(@, <<address, note, message>>)]
                                 ELSE [results EXCEPT !.success =
                                         Append(@, <<address, note>>)],
                                 geo.result, <<Float(v[1]), Float(v[2])>>)
                  ELSE BatchTurn(rows, results, geo.result, None)
             ELSE BatchTurn(rows,
                            [results EXCEPT !.failed =
                               Append(@, <<address, note, message>>)],
                            geo.result, None)
     ELSE BatchTurn(rows,
                    [results EXCEPT !.failed =
                       Append(@, <<address, note, <<"Geocodage echoue">> >>)],
                    geo.result, None)

\* BatchItem writing the row with sheet.insert_row(values, 2), above the rows
\* the sheet holds
BatchItem_insert_row_first(rows, results, address, note, api_response, photon_response, append_ok) ==
  LET geo == geocode_address_france(address, api_response, photon_response)
      lat == geo.result[1]
      lon == geo.result[2]
  IN IF lat # None /\ lon # None
     THEN LET v == validate_france_coordinates(lat, lon, address)
              message == v[4]
          IN IF v[3]
             THEN IF append_ok
                  THEN BatchTurn(AppendRow(<<>>, address, v[1], v[2], note) \o rows,
                                 IF message # <<>>
                                 THEN [results EXCEPT !.corrected =
                                         Append(@, <<address, note, message>>)]
                                 ELSE [results EXCEPT !.success =
                                         Append(@, <<address, note>>)],
                                 geo.result, <<Float(v[1]), Float(v[2])>>)
                  ELSE BatchTurn(rows,
                                 [results EXCEPT !.failed =
                                    Append(@, <<address, note, <<"Erreur">> >>)],
                                 geo.result, None)
             ELSE BatchTurn(rows,
                            [results EXCEPT !.failed =
                               Append(@, <<address, note, message>>)],
                            geo.result, None)
     ELSE BatchTurn(rows,
                    [results EXCEPT !.failed =
                       Append(@, <<address, note, <<"Geocodage echoue">> >>)],
                    geo.result, None)

\* one turn of the loop of add_addresses_batch on the item (address, note)
BatchItem(rows, results, address, note, api_response, photon_response, append_ok) ==
  LET geo == geocode_address_france(address, api_response, photon_response)
      lat == geo.result[1]
      lon == geo.result[2]
  IN IF lat # None /\ lon # None
     THEN LET v == validate_france_coordinates(lat, lon, address)
              message == v[4]
          IN IF v[3]
             THEN IF append_ok
                  THEN BatchTurn(AppendRow(rows, address, v[1], v[2], note),
                                 IF message # <<>>
                                 THEN [results EXCEPT !.corrected =
                                         Append(@, <<address, note, message>>)]
                                 ELSE [results EXCEPT !.success =
                                         Append(@, <<address, note>>)],
                                 geo.result, <<Float(v[1]), Float(v[2])>>)
                  ELSE BatchTurn(rows,
                                 [results EXCEPT !.failed =
                                    Append(@, <<address, note, <<"Erreur">> >>)],
                                 geo.result, None)
             ELSE BatchTurn(rows,
                            [results EXCEPT !.failed =
                               Append(@, <<address, note, message>>)],
                            geo.result, None)
     ELSE BatchTurn(rows,
                    [results EXCEPT !.failed =
                       Append(@, <<address, note, <<"Geocodage echoue">> >>)],
                    geo.result, None)

----------------------------------------------------------------------------
(* The map                                                                 *)

RECURSIVE SumOf(_)
SumOf(xs) == IF xs = <<>> THEN 0 ELSE Head(xs) + SumOf(Tail(xs))

RECURSIVE MinOf(_)
MinOf(xs) ==
  IF Len(xs) = 1 THEN xs[1]
  ELSE LET m == MinOf(Tail(xs)) IN IF Head(xs) < m THEN Head(xs) ELSE m

RECURSIVE MaxOf(_)
MaxOf(xs) ==
  IF Len(xs) = 1 THEN xs[1]
  ELSE LET m == MaxOf(Tail(xs)) IN IF Head(xs) > m THEN Head(xs) ELSE m

\* create_marker
create_marker(lat, lon, address, note) ==
  [location |-> <<lat, lon>>,
   tooltip |-> IF note # <<>> THEN <<address, note>> ELSE <<address>>]

\* create_empty_france_map
create_empty_france_map ==
  [location |-> <<Deg(FRANCE_CENTER[1]), Deg(FRANCE_CENTER[2])>>,
   zoom_start |-> FRANCE_ZOOM, markers |-> <<>>, fit_bounds |-> None]

\* display_map fitting the view to every listed row
display_map_bounds_of_all(df) ==
  IF df = EmptyDataFrame THEN create_empty_france_map
  ELSE LET InFrance(r) ==
             /\ FRANCE_LAT_MIN <= Micro(r.Latitude)
             /\ Micro(r.Latitude) <= FRANCE_LAT_MAX
             /\ FRANCE_LON_MIN <= Micro(r.Longitude)
             /\ Micro(r.Longitude) <= FRANCE_LON_MAX
           france_coords == SelectSeq(df, InFrance)
           lats == [i \in 1..Len(france_coords) |-> Micro(france_coords[i].Latitude)]
           lons == [i \in 1..Len(france_coords) |-> Micro(france_coords[i].Longitude)]
       IN IF france_coords = <<>> THEN create_empty_france_map
          ELSE IF Len(france_coords) = 1
          THEN LET row == france_coords[1]
               IN [location |-> <<row.Latitude, row.Longitude>>,
                   zoom_start |-> 14,
                   markers |-> <<create_marker(row.Latitude, row.Longitude,
                                               row.Adresse, row.Note)>>,
                   fit_bounds |-> None]
          ELSE [location |-> <<[sum |-> SumOf(lats), count |-> Len(lats)],
                               [sum |-> SumOf(lons), count |-> Len(lons)]>>,
                zoom_start |-> 8,
                markers |-> [i \in 1..Len(france_coords) |->
                              create_marker(france_coords[i].Latitude,
                                            france_coords[i].Longitude,
                                            france_coords[i].Adresse,
                                            france_coords[i].Note)],
                fit_bounds |->
                  LET all_lats == [i \in 1..Len(df) |-> Micro(df[i].Latitude)]
                      all_lons == [i \in 1..Len(df) |-> Micro(df[i].Longitude)]
                  IN << <<Deg(MinOf(all_lats)), Deg(MinOf(all_lons))>>,
                        <<Deg(MaxOf(all_lats)), Deg(MaxOf(all_lons))>> >>]

\* display_map: the folium map handed to st_folium. The mean of a column is
\* kept exact, as [sum, count].
display_map(df) ==
  IF df = EmptyDataFrame THEN create_empty_france_map
  ELSE LET InFrance(r) ==
             /\ FRANCE_LAT_MIN <= Micro(r.Latitude)
             /\ Micro(r.Latitude) <= FRANCE_LAT_MAX
             /\ FRANCE_LON_MIN <= Micro(r.Longitude)
             /\ Micro(r.Longitude) <= FRANCE_LON_MAX
           france_coords == SelectSeq(df, InFrance)
           lats == [i \in 1..Len(france_coords) |-> Micro(france_coords[i].Latitude)]
           lons == [i \in 1..Len(france_coords) |-> Micro(france_coords[i].Longitude)]
       IN IF france_coords = <<>> THEN create_empty_france_map
          ELSE IF Len(france_coords) = 1
          THEN LET row == france_coords[1]
               IN [location |-> <<row.Latitude, row.Longitude>>,
                   zoom_start |-> 14,
                   markers |-> <<create_marker(row.Latitude, row.Longitude,
                                               row.Adresse, row.Note)>>,
                   fit_bounds |-> None]
          ELSE [location |-> <<[sum |-> SumOf(lats), count |-> Len(lats)],
                               [sum |-> SumOf(lons), count |-> Len(lons)]>>,
                zoom_start |-> 8,
                markers |-> [i \in 1..Len(france_coords) |->
                              create_marker(france_coords[i].Latitude,
                                            france_coords[i].Longitude,
                                            france_coords[i].Adresse,
                                            france_coords[i].Note)],
                fit_bounds |-> << <<Deg(MinOf(lats)), Deg(MinOf(lons))>>,
                                  <<Deg(MaxOf(lats)), Deg(MaxOf(lons))>> >>]

----------------------------------------------------------------------------
(* The state of the application                                            *)

VARIABLES
  sheet,  \* the data rows of the Google Sheet
  df,     \* the DataFrame listed by the last script run
  map,    \* the map drawn by the last script run, None on the other page
  batch,  \* add_addresses_batch in progress: [items, i, results], with the
          \* rows the sheet held when it was entered (rows0) and what its
          \* last turn geocoded and appended (last)
  pc,     \* "idle", or "batch" inside the loop of add_addresses_batch
  call    \* the last call made: [op, args, ret, before, read_ok]; before is
          \* the listing delete_address chose from, what add_address
          \* geocoded and appended with the rows it found, the rows
          \* add_addresses_batch found, or the listing returned just before
          \* by get_all_addresses

vars == <<sheet, df, map, batch, pc, call>>

Call(op, args, ret, before, read_ok) ==
  [op |-> op, args |-> args, ret |-> ret, before |-> before, read_ok |-> read_ok]

NoBatch ==
  [items |-> <<>>, i |-> 0, results |-> EmptyResults, rows0 |-> <<>>,
   last |-> None]

----------------------------------------------------------------------------
(* Inputs                                                                  *)

MaxRows == 3      \* most data rows the sheet grows to
MaxInitRows == 2  \* most data rows the sheet holds to begin with
MaxBatch == 2     \* most items of one batch

ADDR_PARIS == <<"P","a","r","i","s">>
ADDR_LYON == <<"L","y","o","n">>
ADDR_BLANK == <<" ">>
NOTE_VUE == <<"v","u","e">>

PT_PARIS == <<Deg(48850000), Deg(2350000)>>
PT_SARTHE == <<Deg(48850000), Deg(350000)>>
PT_LYON == <<Deg(45760000), Deg(4830000)>>
PT_OSLO == <<Deg(60000000), Deg(2000000)>>

Country(k, s) == [k |-> k, s |-> s]

Feature(pt, score, country) ==
  [lat |-> pt[1], lon |-> pt[2], score |-> score, country |-> country]

HttpResponse(status_code, features) ==
  [kind |-> "http", status_code |-> status_code, features |-> features]

RaisedException == [kind |-> "exception", status_code |-> 0, features |-> <<>>]

\* the (address, note) pairs the user types
AddInputs == {<<ADDR_PARIS, NOTE_VUE>>, <<ADDR_LYON, <<>> >>, <<ADDR_BLANK, <<>> >>}

\* what the providers answer
ApiResponses ==
  {RaisedException,
   HttpResponse(200, <<Feature(PT_SARTHE, Num(90, 2), Country("absent", <<>>))>>),
   HttpResponse(200, <<Feature(PT_OSLO, Num(90, 2), Country("absent", <<>>))>>)}

PhotonResponses ==
  {HttpResponse(200, <<>>),
   HttpResponse(200, <<Feature(PT_LYON, None, Country("str", <<"F","r","a","n","c","e">>))>>)}

Row(address, lat, lon, note) ==
  [Adresse |-> address, Latitude |-> lat, Longitude |-> lon, Note |-> note]

\* rows the sheet may hold from before: a row whose latitude is text, a row
\* written without its decimal points, a row outside France
LegacyRows ==
  {Row(ADDR_LYON, Text, Deg(4830000), NOTE_VUE),
   Row(ADDR_PARIS, Num(48857739, 0), Num(2294481, 0), <<>>),
   Row(ADDR_LYON, Deg(60000000), Deg(2000000), <<>>)}

SeqsUpTo(S, n) == UNION {[1..k -> S] : k \in 0..n}

----------------------------------------------------------------------------
(* The script runs. Every run of main() on the address page ends by listing *)
(* the sheet (a successful add or delete reruns the script first), so each  *)
(* action leaves in df the listing its run displayed. A failed read of the  *)
(* sheet is drawn in the runs that only list (Refresh, ShowMap).            *)

Init ==
  /\ sheet \in SeqsUpTo(LegacyRows, MaxInitRows)
  /\ df = get_all_addresses(sheet, TRUE)
  /\ map = None
  /\ batch = NoBatch
  /\ pc = "idle"
  /\ call = Call("connect_to_google_sheet", <<>>, None, <<>>, TRUE)

\* the form "Ajouter une nouvelle adresse" is submitted
AddAddress ==
  /\ pc = "idle"
  /\ Len(sheet) < MaxRows
  /\ \E inp \in AddInputs, api \in ApiResponses, photon \in PhotonResponses,
        append_ok \in BOOLEAN :
       LET r == add_address(sheet, inp[1], inp[2], api, photon, append_ok)
       IN /\ sheet' = r.rows
          /\ df' = get_all_addresses(r.rows, TRUE)
          /\ call' = Call("add_address", inp, r.ret,
                          [geo |-> r.geo, appended |-> r.appended,
                           rows |-> sheet], TRUE)
  /\ map' = None
  /\ UNCHANGED <<batch, pc>>

\* the button "Supprimer cette adresse" is clicked: the run lists the sheet,
\* deletes the row selected in that listing and, on success, runs again
DeleteAddress ==
  /\ pc = "idle"
  /\ LET listed == get_all_addresses(sheet, TRUE)
     IN /\ listed # EmptyDataFrame
        /\ \E selected_idx \in 0..(Len(listed) - 1), ok \in BOOLEAN :
             LET r == delete_address(sheet, selected_idx, ok)
             IN /\ sheet' = r.rows
                /\ df' = IF r.ret THEN get_all_addresses(r.rows, TRUE)
                         ELSE listed
                /\ call' = Call("delete_address", <<selected_idx>>, r.ret,
                                listed, TRUE)
  /\ map' = None
  /\ UNCHANGED <<batch, pc>>

\* "Rafraichir les donnees", or any rerun of the address page
Refresh ==
  /\ pc = "idle"
  /\ \E read_ok \in BOOLEAN :
       /\ df' = get_all_addresses(sheet, read_ok)
       /\ call' = Call("get_all_addresses", <<>>, df',
                       IF call.op = "get_all_addresses" /\ call.read_ok
                       THEN call.ret ELSE None,
                       read_ok)
  /\ map' = None
  /\ UNCHANGED <<sheet, batch, pc>>

\* the page "Carte interactive"
ShowMap ==
  /\ pc = "idle"
  /\ \E read_ok \in BOOLEAN :
       /\ df' = get_all_addresses(sheet, read_ok)
       /\ map' = display_map(df')
       /\ call' = Call("display_map", <<>>, map', <<>>, read_ok)
  /\ UNCHANGED <<sheet, batch, pc>>

\* the form "Ajouter plusieurs adresses" is submitted and
\* add_addresses_batch is entered; this run has listed nothing yet
BatchStart ==
  /\ pc = "idle"
  /\ \E items \in SeqsUpTo(AddInputs, MaxBatch) :
       /\ Len(sheet) + Len(items) <= MaxRows
       /\ batch' = [items |-> items, i |-> 0, results |-> EmptyResults,
                    rows0 |-> sheet, last |-> None]
       /\ call' = Call("add_addresses_batch", items, None, <<>>, TRUE)
  /\ df' = EmptyDataFrame
  /\ map' = None
  /\ pc' = "batch"
  /\ UNCHANGED sheet

\* one turn of its loop
BatchStep ==
  /\ pc = "batch"
  /\ batch.i < Len(batch.items)
  /\ \E api \in ApiResponses, photon \in PhotonResponses, append_ok \in BOOLEAN :
       LET item == batch.items[batch.i + 1]
           r == BatchItem(sheet, batch.results, item[1], item[2],
                          api, photon, append_ok)
       IN /\ sheet' = r.rows
          /\ batch' = [batch EXCEPT !.i = @ + 1, !.results = r.results,
                                    !.last = [geo |-> r.geo,
                                              appended |-> r.appended]]
  /\ UNCHANGED <<df, map, pc, call>>

\* it returns, and the page lists the sheet
BatchEnd ==
  /\ pc = "batch"
  /\ batch.i = Len(batch.items)
  /\ df' = get_all_addresses(sheet, TRUE)
  /\ call' = Call("add_addresses_batch", batch.items, batch.results,
                  batch.rows0, TRUE)
  /\ map' = None
  /\ batch' = NoBatch
  /\ pc' = "idle"
  /\ UNCHANGED sheet

Next ==
  \/ AddAddress
  \/ DeleteAddress
  \/ Refresh
  \/ ShowMap
  \/ BatchStart
  \/ BatchStep
  \/ BatchEnd

Spec == Init /\ [][Next]_vars

----------------------------------------------------------------------------
(* The functions on their own. A call is drawn with its arguments (pc =     *)
(* "call") and the function is applied to them (pc = "done").               *)

Idle ==
  /\ sheet = <<>>
  /\ df = EmptyDataFrame
  /\ map = None
  /\ batch = NoBatch

Pending(op, args) == Call(op, args, None, <<>>, TRUE)

Returns(op, value) ==
  /\ pc = "call"
  /\ call.op = op
  /\ call' = [call EXCEPT !.ret = value]
  /\ pc' = "done"
  /\ UNCHANGED <<sheet, df, map, batch>>

Done(op) == pc = "done" /\ call.op = op

(* validate_france_coordinates *)

ADDR_RUE_X_PARIS ==
  <<"1","0"," ","r","u","e"," ","X",","," ","P","a","r","i","s">>

ValidateLats ==
  {None, Deg(40999999), Deg(41000000), Deg(45000000), Deg(48850000),
   Deg(51500000), Deg(51500001), Deg(60000000)}

ValidateLons ==
  {None, Deg(-5500001), Deg(-5500000), Deg(0), Deg(1), Deg(350000),
   Deg(999999), Deg(1000000), Deg(2000000), Deg(2350000), Deg(8500000),
   Deg(10000000), Deg(10000001)}

ValidateAddresses ==
  {ADDR_RUE_X_PARIS, <<"P","A","R","I","S">>, <<"7","5","0","0","7">>,
   ADDR_LYON, <<"x">>, <<>>}

InitValidate ==
  /\ Idle
  /\ pc = "call"
  /\ call \in {Pending("validate_france_coordinates", <<lat, lon, address>>) :
                lat \in ValidateLats, lon \in ValidateLons,
                address \in ValidateAddresses}

ApplyValidate ==
  Returns("validate_france_coordinates",
          validate_france_coordinates(call.args[1], call.args[2], call.args[3]))

SpecValidate == InitValidate /\ [][ApplyValidate]_vars

InBox(lat, lon) ==
  /\ lat # None /\ lon # None
  /\ 41000000 <= lat.m /\ lat.m <= 51500000
  /\ -5500000 <= lon.m /\ lon.m <= 10000000

\* C1: for a latitude inside [41.0, 51.5], a longitude strictly between 0 and
\* 1 and an address containing "paris" (any case) or "75",
\* validate_france_coordinates returns (lat, lon + 2.0), valid, with a
\* non-empty correction notice.
C1_CapitalRegionRepair ==
  Done("validate_france_coordinates") =>
    LET lat == call.args[1]
        lon == call.args[2]
        address == call.args[3]
    IN (/\ lat # None /\ lon # None
        /\ 41000000 <= lat.m /\ lat.m <= 51500000
        /\ 0 < lon.m /\ lon.m < 1000000
        /\ (Contains(STR_PARIS, Lower(address)) \/ Contains(STR_75, address)))
       => /\ call.ret[1] = lat
          /\ call.ret[2] = Deg(lon.m + 2000000)
          /\ call.ret[3] = TRUE
          /\ call.ret[4] # <<>>

\* C9: validate_france_coordinates never changes the latitude and never
\* accepts a point outside the box: a latitude outside [41.0, 51.5] gives an
\* invalid result with lat and lon as given, and a valid result has the
\* latitude given and lies inside the box.
C9_LatitudeNeverRepaired ==
  Done("validate_france_coordinates") =>
    LET lat == call.args[1]
        lon == call.args[2]
    IN /\ (lat # None /\ ~(41000000 <= lat.m /\ lat.m <= 51500000))
            => /\ call.ret[1] = lat
               /\ call.ret[2] = lon
               /\ call.ret[3] = FALSE
       /\ call.ret[3] = TRUE
            => /\ call.ret[1] = lat
               /\ InBox(call.ret[1], call.ret[2])

\* a Paris address with a longitude in (0, 1) and a latitude outside the
\* range has been refused as given
C9_Witness ==
  /\ Done("validate_france_coordinates")
  /\ call.args = <<Deg(60000000), Deg(350000), ADDR_RUE_X_PARIS>>
  /\ call.ret[1] = Deg(60000000)
  /\ call.ret[2] = Deg(350000)
  /\ call.ret[3] = FALSE

(* normalize_coordinate *)

NormalizeMantissas ==
  {0, 1, 48, 200, 360, 361, 2147, 2148, 2294481, 48857739, 200000000,
   360000000, 360000001, 400000000, 2000000000}

NormalizeValues ==
  {None, Text, NaN}
  \cup {Num(m, e) : m \in NormalizeMantissas, e \in {0, 6}}
  \cup {Num(-m, e) : m \in NormalizeMantissas, e \in {0, 6}}

InitNormalize ==
  /\ Idle
  /\ pc = "call"
  /\ call \in {Pending("normalize_coordinate", <<value>>) :
                value \in NormalizeValues}

ApplyNormalize ==
  Returns("normalize_coordinate", normalize_coordinate(call.args[1]))

SpecNormalize == InitNormalize /\ [][ApplyNormalize]_vars

\* a decimal number with its trailing zeros removed, for comparing values
RECURSIVE Reduced(_)
Reduced(v) ==
  IF v.e > 0 /\ v.m % 10 = 0
  THEN Reduced([v EXCEPT !.m = @ \div 10, !.e = @ - 1])
  ELSE v

SameNumber(a, b) ==
  a # None /\ b # None /\ a.t = "num" /\ b.t = "num" /\ Reduced(a) = Reduced(b)

RECURSIVE Pow10(_)
Pow10(n) == IF n = 0 THEN 1 ELSE 10 * Pow10(n - 1)

\* |v| > 360, v a decimal number (one with seven or more decimals left
\* after reduction has a 32-bit mantissa and is below 360)
Exceeds360(v) ==
  LET r == Reduced(v)
  IN r.e <= 6 /\ Abs(r.m) > 360 * Pow10(r.e)

\* C10: normalize_coordinate returns None for a value that does not parse;
\* otherwise the value divided by 1,000,000 when its magnitude exceeds 360
\* and the value itself when it does not. normalize(48.857739) = 48.857739,
\* normalize(48857739) = 48.857739, normalize("abc") is None, and
\* normalizing a result of magnitude at most 360 again changes nothing.
C10_NormalizeCoordinate ==
  /\ SameNumber(normalize_coordinate(Num(48857739, 6)), Num(48857739, 6))
  /\ SameNumber(normalize_coordinate(Num(48857739, 0)), Num(48857739, 6))
  /\ normalize_coordinate(Text) = None
  /\ Done("normalize_coordinate") =>
       LET value == call.args[1]
           r == call.ret
       IN /\ (value = None \/ value.t = "text") <=> r = None
          /\ (value # None /\ value.t = "nan") => r = NaN
          /\ (value # None /\ value.t = "num") =>
               IF Exceeds360(value)
               THEN SameNumber(r, Num(value.m, value.e + 6))
               ELSE SameNumber(r, value)
          /\ (r # None /\ r.t = "num" /\ ~Exceeds360(r)) =>
               normalize_coordinate(r) = r

\* a latitude written without its decimal point has been repaired
C10_Witness ==
  /\ Done("normalize_coordinate")
  /\ call.args = <<Num(48857739, 0)>>
  /\ call.ret = Deg(48857739)

(* geocode_address_france and the two providers *)

GeoLats == {Deg(40999999), Deg(41000000), Deg(48850000), Deg(51500000), Deg(51500001)}

GeoLons == {Deg(-5500001), Deg(-5500000), Deg(2350000), Deg(10000000), Deg(10000001)}

GeoScores == {None, Num(0, 2), Num(29, 2), Num(30, 2), Num(39, 2), Num(40, 2), Num(100, 2)}

GeoCountries ==
  {Country("absent", <<>>), Country("null", <<>>), Country("str", <<>>),
   Country("str", <<"F","r","a","n","c","e">>),
   Country("str", <<"F","R","A","N","C","E">>),
   Country("str", <<"f","r">>), Country("str", <<"F","R">>),
   Country("str", <<"f","r","a">>), Country("str", <<"I","t","a","l","i","a">>)}

\* answers that carry no usable feature, whatever the provider
FailedResponses ==
  {RaisedException,
   HttpResponse(200, <<>>),
   HttpResponse(500, <<>>),
   HttpResponse(404, <<Feature(PT_PARIS, Num(90, 2), Country("absent", <<>>))>>)}

TryApiResponses ==
  FailedResponses
  \cup {HttpResponse(200, <<Feature(<<lat, lon>>, score, Country("absent", <<>>))>>) :
          lat \in GeoLats, lon \in GeoLons, score \in GeoScores}
  \cup {HttpResponse(200, <<Feature(PT_OSLO, Num(90, 2), Country("absent", <<>>)),
                            Feature(PT_PARIS, Num(90, 2), Country("absent", <<>>))>>)}

TryPhotonResponses ==
  FailedResponses
  \cup {HttpResponse(200, <<Feature(<<lat, lon>>, None, country)>>) :
          lat \in GeoLats, lon \in GeoLons, country \in GeoCountries}

GeocodeAddresses == {ADDR_PARIS, ADDR_BLANK, <<>>, <<" ","x"," ">>}

GeocodeApiResponses ==
  FailedResponses
  \cup {HttpResponse(200, <<Feature(PT_PARIS, score, Country("absent", <<>>))>>) :
          score \in {None, Num(29, 2), Num(30, 2), Num(90, 2)}}
  \cup {HttpResponse(200, <<Feature(PT_OSLO, Num(90, 2), Country("absent", <<>>))>>)}

GeocodePhotonResponses ==
  FailedResponses
  \cup {HttpResponse(200, <<Feature(PT_LYON, None, country)>>) :
          country \in {Country("absent", <<>>), Country("null", <<>>),
                       Country("str", <<"F","R">>),
                       Country("str", <<"I","t","a","l","i","a">>)}}
  \cup {HttpResponse(200, <<Feature(PT_OSLO, None, Country("absent", <<>>))>>)}

InitGeocode ==
  /\ Idle
  /\ pc = "call"
  /\ call \in
       {Pending("try_api_adresse", <<r>>) : r \in TryApiResponses}
       \cup {Pending("try_photon_api", <<r>>) : r \in TryPhotonResponses}
       \cup {Pending("geocode_address_france", <<address, api, photon>>) :
               address \in GeocodeAddresses, api \in GeocodeApiResponses,
               photon \in GeocodePhotonResponses}

ApplyTryApiAdresse ==
  Returns("try_api_adresse", try_api_adresse(call.args[1]))

ApplyTryPhotonApi ==
  Returns("try_photon_api", try_photon_api(call.args[1]))

ApplyGeocode ==
  Returns("geocode_address_france",
          geocode_address_france(call.args[1], call.args[2], call.args[3]))

NextGeocode ==
  \/ ApplyTryApiAdresse
  \/ ApplyTryPhotonApi
  \/ ApplyGeocode

SpecGeocode == InitGeocode /\ [][NextGeocode]_vars

\* the response carries a first feature the client looks at
HasFeature(response) ==
  response.kind = "http" /\ response.status_code = 200 /\ response.features # <<>>

\* the primary provider's answer is acceptable
ApiAcceptable(response) ==
  /\ HasFeature(response)
  /\ InBox(response.features[1].lat, response.features[1].lon)
  /\ response.features[1].score # None
  /\ response.features[1].score.m >= 30

\* the secondary provider's answer is acceptable
PhotonAcceptable(response) ==
  /\ HasFeature(response)
  /\ InBox(response.features[1].lat, response.features[1].lon)
  /\ \/ response.features[1].country.k = "absent"
     \/ /\ response.features[1].country.k = "str"
        /\ Lower(response.features[1].country.s)
             \in {<<>>, <<"f","r">>, <<"f","r","a","n","c","e">>}

\* C4: geocode_address_france queries the primary provider first for a
\* non-blank address, the secondary one if and only if the primary gave no
\* acceptable result, each at most once, and returns (None, None) exactly
\* when both gave none or the address is blank (then it queries nobody).
C4_ProviderOrder ==
  Done("geocode_address_france") =>
    LET address == call.args[1]
        api == call.args[2]
        photon == call.args[3]
        blank == \A i \in 1..Len(address) : address[i] = " "
        queried == call.ret.queried
    IN /\ blank => queried = <<>>
       /\ ~blank => /\ Len(queried) >= 1
                    /\ queried[1] = "api_adresse"
       /\ (\E i \in 1..Len(queried) : queried[i] = "photon")
            <=> (~blank /\ ~ApiAcceptable(api))
       /\ \A i, j \in 1..Len(queried) : queried[i] = queried[j] => i = j
       /\ call.ret.result = <<None, None>>
            <=> (blank \/ (~ApiAcceptable(api) /\ ~PhotonAcceptable(photon)))
       /\ (~blank /\ ApiAcceptable(api))
            => call.ret.result = <<api.features[1].lat, api.features[1].lon>>
       /\ (~blank /\ ~ApiAcceptable(api) /\ PhotonAcceptable(photon))
            => call.ret.result = <<photon.features[1].lat, photon.features[1].lon>>

\* the primary provider refused a low score and the secondary one answered
C4_Witness ==
  /\ Done("geocode_address_france")
  /\ call.args[1] = ADDR_PARIS
  /\ call.args[2] = HttpResponse(200, <<Feature(PT_PARIS, Num(29, 2), Country("absent", <<>>))>>)
  /\ call.ret.queried = <<"api_adresse", "photon">>
  /\ call.ret.result = PT_LYON

\* C5: a feature of the primary provider is accepted if and only if it is
\* inside the box and its score is at least 0.3 (no score counts as 0); a
\* feature of the secondary provider if and only if it is inside the box and
\* its country is "france" or "fr" in any case, empty or absent; a transport
\* error, a status other than 200 or an empty feature list gives no result.
C5_AcceptanceRule ==
  /\ Done("try_api_adresse") =>
       IF ApiAcceptable(call.args[1])
       THEN call.ret = <<call.args[1].features[1].lat, call.args[1].features[1].lon>>
       ELSE call.ret = None
  /\ Done("try_photon_api") =>
       IF PhotonAcceptable(call.args[1])
       THEN call.ret = <<call.args[1].features[1].lat, call.args[1].features[1].lon>>
       ELSE call.ret = None

\* a feature on the corner of the box with the score 0.3 has been accepted
C5_Witness ==
  /\ Done("try_api_adresse")
  /\ call.args[1] = HttpResponse(200, <<Feature(<<Deg(51500000), Deg(-5500000)>>,
                                                 Num(30, 2), Country("absent", <<>>))>>)
  /\ call.ret = <<Deg(51500000), Deg(-5500000)>>

(* parse_addresses_with_notes *)

MaxParseLen == 5  \* longest text drawn from ParseChars

ParseChars == {"A", "B", " ", "(", ")", ","}

STR_EXAMPLE ==
  <<"A"," ","(","n","o","t","e","1",")",","," ","B",","," ","C"," ",
    "(","n","o","t","e","2",")">>

ParseExamples ==
  {STR_EXAMPLE,
   <<"A"," ","(","x",")"," ","B"," ","(","y",")">>,
   <<"A"," "," ","(","x",")","(","y",")",",","(","B",")",","," ","B","(",")">>,
   <<"(","(","A",")","B",")",","," ","A","(","B">>}

ParseTexts == SeqsUpTo(ParseChars, MaxParseLen) \cup ParseExamples

InitParse ==
  /\ Idle
  /\ pc = "call"
  /\ call \in {Pending("parse_addresses_with_notes", <<text>>) : text \in ParseTexts}

ApplyParse ==
  Returns("parse_addresses_with_notes", parse_addresses_with_notes(call.args[1]))

SpecParse == InitParse /\ [][ApplyParse]_vars

\* the k-th smallest element of a set of numbers
KthOf(S, k) == CHOOSE p \in S : Cardinality({q \in S : q <= p}) = k

\* the characters of s at the positions in S, in order
Restrict(s, S) == [k \in 1..Cardinality(S) |-> s[KthOf(S, k)]]

\* s without the whitespace at its two ends
Trimmed(s) ==
  LET solid == {p \in 1..Len(s) : s[p] # " "}
  IN IF solid = {} THEN <<>>
     ELSE SubSeq(s, KthOf(solid, 1), KthOf(solid, Cardinality(solid)))

\* the k-th comma-separated piece of s
PieceOf(s, k) ==
  LET commas == {p \in 1..Len(s) : s[p] = ","}
      from == IF k = 1 THEN 1 ELSE KthOf(commas, k - 1) + 1
      to == IF k = Cardinality(commas) + 1 THEN Len(s) ELSE KthOf(commas, k) - 1
  IN SubSeq(s, from, to)

\* positions i..j of f hold a parenthesized group with something inside
IsGroup(f, i, j) ==
  /\ f[i] = "(" /\ f[j] = ")" /\ j > i + 1
  /\ \A k \in (i + 1)..(j - 1) : f[k] # ")"

OpensGroup(f, i) == \E j \in 1..Len(f) : IsGroup(f, i, j)

CloseOf(f, i) == CHOOSE j \in 1..Len(f) : IsGroup(f, i, j)

\* the groups of f, left to right, none starting inside another
GroupsOf(f) ==
  {i \in 1..Len(f) :
     /\ OpensGroup(f, i)
     /\ \A p \in 1..(i - 1) :
          f[p] = "(" => \E q \in (p + 1)..(i - 1) : f[q] = ")"}

FirstGroupOf(f) == {i \in GroupsOf(f) : \A k \in GroupsOf(f) : i <= k}

\* f without the groups that open at the positions G and without the
\* whitespace immediately before each
WithoutGroups(f, G) ==
  LET Covered(p) ==
        \E i \in G :
          \/ i <= p /\ p <= CloseOf(f, i)
          \/ p < i /\ \A k \in p..(i - 1) : f[k] = " "
  IN Restrict(f, {p \in 1..Len(f) : ~Covered(p)})

\* the note of f: what its first group holds, trimmed
NoteOf(f) ==
  IF GroupsOf(f) = {} THEN <<>>
  ELSE LET i == KthOf(GroupsOf(f), 1)
       IN Trimmed(SubSeq(f, i + 1, CloseOf(f, i) - 1))

\* the pairs the text yields when the groups Chosen(f) are taken out of each
\* fragment f
PairsOf(text, Chosen(_)) ==
  LET n == Cardinality({p \in 1..Len(text) : text[p] = ","}) + 1
      pairs == [k \in 1..n |->
                 LET f == Trimmed(PieceOf(text, k))
                 IN <<Trimmed(WithoutGroups(f, Chosen(f))), NoteOf(f)>>]
      Kept(pair) == pair[1] # <<>>
  IN SelectSeq(pairs, Kept)

\* C7 as stated: the clean address is the fragment with its first
\* parenthesized group (and the whitespace before it) removed.
C7_FirstGroupRemoved ==
  Done("parse_addresses_with_notes") =>
    call.ret = PairsOf(call.args[1], FirstGroupOf)

\* C7 amended: parse_addresses_with_notes splits on commas and yields, per
\* fragment and in order, (clean address, note): the note is the trimmed
\* content of the first non-empty parenthesized group ("" without one), the
\* clean address is the fragment with every such group and the whitespace
\* immediately before it removed, trimmed; fragments whose address is empty
\* are dropped. parse('A (note1), B, C (note2)') =
\* [('A','note1'),('B',''),('C','note2')] and parse('') = [].
C7_EveryGroupRemoved ==
  /\ parse_addresses_with_notes(<<>>) = <<>>
  /\ parse_addresses_with_notes(STR_EXAMPLE)
       = << << <<"A">>, <<"n","o","t","e","1">> >>,
            << <<"B">>, <<>> >>,
            << <<"C">>, <<"n","o","t","e","2">> >> >>
  /\ Done("parse_addresses_with_notes") =>
       call.ret = PairsOf(call.args[1], GroupsOf)

\* a fragment with two groups has lost both and kept the first as its note
C7_Witness ==
  /\ Done("parse_addresses_with_notes")
  /\ call.args[1] = <<"A"," ","(","x",")"," ","B"," ","(","y",")">>
  /\ call.ret = << << <<"A"," ","B">>, <<"x">> >> >>

----------------------------------------------------------------------------
(* The claims about the sheet, the batch and the map                       *)

\* what a listing shows of a row
Shown(r) == <<r.Adresse, r.Latitude, r.Longitude, r.Note>>

ShownRows(d) == [i \in 1..Len(d) |-> Shown(d[i])]

\* C2: a record with in-bounds coordinates appended to the sheet is listed
\* by the next get_all_addresses() with the latitude and longitude appended,
\* within 1e-6, whatever its address.
C2_RoundTrip ==
  (call.op = "add_address" /\ call.ret = TRUE) =>
    \E i \in 1..Len(df) :
      /\ df[i].index = Len(sheet) - 1
      /\ df[i].Adresse = call.args[1]
      /\ Abs(df[i].Latitude.m - call.before.appended[1].m) <= 1
      /\ Abs(df[i].Longitude.m - call.before.appended[2].m) <= 1

\* C3: delete_address(sheet, i) deletes the row shown at position i of the
\* latest listing: the next listing is that listing without its record i,
\* the others in the same order.
C3_DeleteShownRow ==
  (call.op = "delete_address" /\ call.ret = TRUE) =>
    LET i == call.args[1] + 1
        before == ShownRows(call.before)
    IN ShownRows(df) = SubSeq(before, 1, i - 1) \o SubSeq(before, i + 1, Len(before))

\* the (address, note) pairs of a result list
PairsIn(list) == [i \in 1..Len(list) |-> <<list[i][1], list[i][2]>>]

\* the results are the items, each put in one list, in the items' order
Partitioned(items, results) ==
  /\ Len(results.success) + Len(results.corrected) + Len(results.failed)
       = Len(items)
  /\ \E class \in [1..Len(items) -> {"success", "corrected", "failed"}] :
       \A k \in {"success", "corrected", "failed"} :
         PairsIn(results[k]) = Restrict(items, {p \in 1..Len(items) : class[p] = k})

\* C6: add_addresses_batch puts every input item in exactly one of success,
\* corrected and failed; the three lengths sum to the input length and each
\* list keeps the order of the input. It holds after every turn of the loop
\* for the items handled so far.
C6_BatchPartition ==
  /\ pc = "batch" =>
       Partitioned(SubSeq(batch.items, 1, batch.i), batch.results)
  /\ (pc = "idle" /\ call.op = "add_addresses_batch") =>
       Partitioned(call.args, call.ret)

\* a batch of two has ended with its first item failed and its second added
C6_Witness ==
  /\ pc = "idle"
  /\ call.op = "add_addresses_batch"
  /\ call.args = << <<ADDR_PARIS, NOTE_VUE>>, <<ADDR_LYON, <<>> >> >>
  /\ Len(call.ret.failed) = 1
  /\ call.ret.failed[1][1] = ADDR_PARIS
  /\ call.ret.success = << <<ADDR_LYON, <<>> >> >>

\* the listed rows inside the box
ValidRows(d) ==
  LET Valid(r) == InBox(r.Latitude, r.Longitude) IN SelectSeq(d, Valid)

\* C8: display_map frames the map by the listed records inside the box: none,
\* the default centre [46.603354, 1.888334] at zoom 6 without marker; one,
\* that point at zoom 14 with one marker; several, one marker per such
\* record and the view fitted to the smallest and largest latitude and
\* longitude among them. A record outside the box has no marker and no part
\* in the bounds.
C8_MapFraming ==
  (call.op = "display_map") =>
    LET valid == ValidRows(df)
        n == Len(valid)
    IN /\ map = call.ret
       /\ n = 0 => /\ map.location = <<Deg(46603354), Deg(1888334)>>
                   /\ map.zoom_start = 6
                   /\ map.markers = <<>>
       /\ n = 1 => /\ map.location = <<valid[1].Latitude, valid[1].Longitude>>
                   /\ map.zoom_start = 14
       /\ Len(map.markers) = n
       /\ \A i \in 1..n :
            map.markers[i].location = <<valid[i].Latitude, valid[i].Longitude>>
       /\ n > 1 =>
            LET sw == map.fit_bounds[1]
                ne == map.fit_bounds[2]
            IN /\ \A i \in 1..n :
                    /\ sw[1].m <= valid[i].Latitude.m
                    /\ sw[2].m <= valid[i].Longitude.m
                    /\ ne[1].m >= valid[i].Latitude.m
                    /\ ne[2].m >= valid[i].Longitude.m
               /\ \E i \in 1..n : sw[1] = valid[i].Latitude
               /\ \E i \in 1..n : sw[2] = valid[i].Longitude
               /\ \E i \in 1..n : ne[1] = valid[i].Latitude
               /\ \E i \in 1..n : ne[2] = valid[i].Longitude

\* three rows are listed, one of them outside the box, and the map shows
\* two markers inside fitted bounds
C8_Witness ==
  /\ call.op = "display_map"
  /\ Len(df) = 3
  /\ Len(ValidRows(df)) = 2
  /\ Len(map.markers) = 2
  /\ map.fit_bounds # None

\* the (address, note) pairs of sheet rows
PairsOfRows(rows) == [i \in 1..Len(rows) |-> <<rows[i].Adresse, rows[i].Note>>]

\* the sheet is the rows the batch found followed by one row per item put in
\* success or corrected, in the items' order, and by none for a failed item;
\* every failed item carries a reason
RowsFollow(rows0, rows, items, results) ==
  /\ Len(rows) >= Len(rows0)
  /\ SubSeq(rows, 1, Len(rows0)) = rows0
  /\ \E class \in [1..Len(items) -> {"success", "corrected", "failed"}] :
       /\ \A k \in {"success", "corrected", "failed"} :
            PairsIn(results[k]) = Restrict(items, {p \in 1..Len(items) : class[p] = k})
       /\ PairsOfRows(SubSeq(rows, Len(rows0) + 1, Len(rows)))
            = Restrict(items, {p \in 1..Len(items) : class[p] # "failed"})
  /\ \A i \in 1..Len(results.failed) : results.failed[i][3] # <<>>

\* C11: in add_addresses_batch the sheet gains one appended row for each item
\* put in success or corrected and none for an item put in failed, the
\* appended rows in input order; an item that fails (geocoding, validation,
\* or an exception of the append) is put in failed with a non-empty reason,
\* and the loop goes on to the next item: it holds after every turn for the
\* items handled so far, a turn is possible while items remain, and at the
\* return every item has been handled.
C11_BatchRows ==
  /\ pc = "batch" =>
       /\ RowsFollow(batch.rows0, sheet, SubSeq(batch.items, 1, batch.i),
                     batch.results)
       /\ batch.i < Len(batch.items) => ENABLED BatchStep
  /\ (pc = "idle" /\ call.op = "add_addresses_batch") =>
       /\ RowsFollow(call.before, sheet, call.args, call.ret)
       /\ Len(call.ret.success) + Len(call.ret.corrected) + Len(call.ret.failed)
            = Len(call.args)

\* a batch of two found one row in the sheet: the append of its first item
\* raised, and its second item was appended below the row found
C11_Witness ==
  /\ pc = "idle"
  /\ call.op = "add_addresses_batch"
  /\ Len(call.before) = 1
  /\ call.args = << <<ADDR_LYON, <<>> >>, <<ADDR_PARIS, NOTE_VUE>> >>
  /\ call.ret.failed = << <<ADDR_LYON, <<>>, <<"Erreur">> >> >>
  /\ call.ret.success = << <<ADDR_PARIS, NOTE_VUE>> >>
  /\ Len(sheet) = 2
  /\ sheet[2].Adresse = ADDR_PARIS

\* the rows of the sheet whose latitude and longitude both normalize, in the
\* sheet's order, as a listing shows them: the address, the two normalized
\* coordinates, and the note or the empty string
StoreRowsListed(rows) ==
  LET Normalizes(r) == /\ normalize_coordinate(r.Latitude) # None
                       /\ normalize_coordinate(r.Longitude) # None
      kept == SelectSeq(rows, Normalizes)
  IN [i \in 1..Len(kept) |->
       <<kept[i].Adresse,
         normalize_coordinate(kept[i].Latitude),
         normalize_coordinate(kept[i].Longitude),
         IF kept[i].Note = None THEN <<>> ELSE kept[i].Note>>]

\* C12: get_all_addresses returns exactly the rows of the sheet whose
\* latitude and longitude both normalize, in the sheet's order, a missing
\* note read as the empty string; called again with no write in between it
\* returns the same listing; when the read fails it returns the empty
\* listing.
C12_ListingIsStoreRows ==
  (call.op = "get_all_addresses") =>
    /\ df = call.ret
    /\ call.read_ok => ShownRows(call.ret) = StoreRowsListed(sheet)
    /\ ~call.read_ok => call.ret = EmptyDataFrame
    /\ (call.read_ok /\ call.before # None) => call.ret = call.before

\* geocode_address_france returned no point, or validation rejects its point
NoValidPoint(geo) ==
  \/ geo = None
  \/ geo[1] = None
  \/ geo[2] = None
  \/ ~InBox(geo[1], geo[2])

====
